---- MODULE Spec2Model ----
(***************************************************************************)
(* The cipher engine of src/main.rs: AlphabetIndex, Rotor, Block,          *)
(* Reflector and the machine EnigmaSudnogoDnya (new, encrypt).             *)
(*                                                                         *)
(* Characters are Unicode code points (naturals).  A Vec used as a lookup  *)
(* table (alphabet, indices, plugboard_map, map_idx) is a function on      *)
(* 0 .. len-1, as the code indexes it; a Vec or String that the code only  *)
(* iterates (pairs, blocks, rotors, texts) is a sequence.                  *)
(***************************************************************************)
EXTENDS Integers, Sequences, FiniteSets, TLC

VARIABLES cfg, mach, call, blk, start, ncalls, stepped, wrapped

vars == <<cfg, mach, call, blk, start, ncalls, stepped, wrapped>>

(***************************************************************************)
(* Bounds of the model.                                                    *)
(***************************************************************************)
\* longest plugboard list of a configuration
MaxPairs == 2
\* longest message given to encrypt
MaxLen == 2
\* most calls of Block::rotate made on one block in SpecBlock
MaxCalls == 1100
MaxShift == 12
MaxSize == 34
MaxKeys == 40
SmallSize == 3

(***************************************************************************)
(* Option<usize>: Some(i) is i, None is a value outside every index range. *)
(***************************************************************************)
None == -1

\* the elements of a sequence
Range(s) == {s[i] : i \in 1..Len(s)}

\* all sequences over S of length at most n
SeqsUpTo(S, n) == UNION {[1..k -> S] : k \in 0..n}

\* a Vec as a lookup table: the function on 0 .. Len(s)-1
Table(s) == [i \in 0..(Len(s) - 1) |-> s[i + 1]]

\* number of entries of a lookup table
TLen(t) == Cardinality(DOMAIN t)

SetMin(S) == CHOOSE x \in S : \A y \in S : x <= y
SetMax(S) == CHOOSE x \in S : \A y \in S : x >= y

(***************************************************************************)
(* The two built-in alphabets (EnigmaSudnogoDnya::new), as code points.    *)
(* Latin is a..z; Cyrillic is а..е, ё, ж..я: ё (U+0451) is declared at     *)
(* index 6 but lies after я (U+044F) in code-point order, and U+0450 lies  *)
(* inside the spanned range without being a character of the alphabet.     *)
(***************************************************************************)
LatinAlphabet == [i \in 1..26 |-> 96 + i]

CyrillicAlphabet ==
    [i \in 1..33 |-> IF i <= 6 THEN 1071 + i ELSE IF i = 7 THEN 1105 ELSE 1070 + i]

\* AlphStr that gives the Cyrillic string for "cyrillic" alone
AlphStrLatinDefault(tag) == IF tag = "cyrillic" THEN CyrillicAlphabet ELSE LatinAlphabet

\* cfg.alphabet == "latin" selects Latin, anything else Cyrillic
AlphStr(tag) == IF tag = "latin" THEN LatinAlphabet ELSE CyrillicAlphabet

(***************************************************************************)
(* AlphabetIndex                                                           *)
(***************************************************************************)
\* AlphabetIndex::new on a table that starts as Some(0) in every slot
AlphabetIndex_new_zeroed(alphabet) ==
    LET codes == {alphabet[i] : i \in DOMAIN alphabet}
        min   == SetMin(codes)
        max   == SetMax(codes)
        size  == max - min + 1
    IN  [min |-> min,
         indices |-> [k \in 0..(size - 1) |->
                        IF \E i \in DOMAIN alphabet : alphabet[i] - min = k
                        THEN SetMax({i \in DOMAIN alphabet : alphabet[i] - min = k})
                        ELSE 0]]

\* AlphabetIndex::new: a table over min..max of the code points; the loop
\* writes Some(i) at each character's slot (a later i overwrites).
AlphabetIndex_new(alphabet) ==
    LET codes == {alphabet[i] : i \in DOMAIN alphabet}
        min   == SetMin(codes)
        max   == SetMax(codes)
        size  == max - min + 1
    IN  [min |-> min,
         indices |-> [k \in 0..(size - 1) |->
                        IF \E i \in DOMAIN alphabet : alphabet[i] - min = k
                        THEN SetMax({i \in DOMAIN alphabet : alphabet[i] - min = k})
                        ELSE None]]

\* AlphabetIndex::get
AlphabetIndex_get(im, c) ==
    IF c < im.min \/ c > im.min + (TLen(im.indices) - 1)
    THEN None
    ELSE im.indices[c - im.min]

(***************************************************************************)
(* Rotor                                                                   *)
(***************************************************************************)
Rotor_new(shift, alphabet_len) ==
    [shift |-> shift, position |-> 0, size |-> alphabet_len]

\* Rotor_encode_index with the reverse flag ignored: both directions add
Rotor_encode_index_forward_only(r, idx, reverse) ==
    (idx + r.shift + r.position) % r.size

\* Rotor_encode_index whose reverse direction subtracts the shift alone
Rotor_encode_index_shift_only(r, idx, reverse) ==
    IF reverse
    THEN (idx + r.size - (r.shift % r.size)) % r.size
    ELSE (idx + r.shift + r.position) % r.size

Rotor_encode_index(r, idx, reverse) ==
    IF reverse
    THEN (idx + r.size - ((r.shift + r.position) % r.size)) % r.size
    ELSE (idx + r.shift + r.position) % r.size

\* Rotor::rotate: the rotor after the step; the returned bool is RotorWrapped
Rotor_rotate(r) == [r EXCEPT !.position = (r.position + 1) % r.size]

\* RotorWrapped that tests the position before the step
RotorWrappedBefore(r) == r.position = 0

RotorWrapped(r) == Rotor_rotate(r).position = 0

Rotor_save_position(r) == r.position

\* Rotor_load_position that stores the offset as it is
Rotor_load_position_unreduced(r, pos) == [r EXCEPT !.position = pos]

Rotor_load_position(r, pos) == [r EXCEPT !.position = pos % r.size]

(***************************************************************************)
(* Block                                                                   *)
(***************************************************************************)
\* the color tokens К Б Ч З Р О Ф С Г Л of Block::new, as code points
ColorTokens == {1050, 1041, 1063, 1047, 1056, 1054, 1060, 1057, 1043, 1051}

\* ColorShift with a default arm: an unknown token gets shift 0, no panic
ColorShiftDefault(col) ==
    CASE col = 1050 -> 1
      [] col = 1041 -> 2
      [] col = 1063 -> 3
      [] col = 1047 -> 5
      [] col = 1056 -> 4
      [] col = 1054 -> 6
      [] col = 1060 -> 7
      [] col = 1057 -> 8
      [] col = 1043 -> 9
      [] col = 1051 -> 10
      [] OTHER -> 0

\* the match of Block::new; the arm for every other token panics, which is
\* None here
ColorShift(col) ==
    CASE col = 1050 -> 1
      [] col = 1041 -> 2
      [] col = 1063 -> 3
      [] col = 1047 -> 5
      [] col = 1056 -> 4
      [] col = 1054 -> 6
      [] col = 1060 -> 7
      [] col = 1057 -> 8
      [] col = 1043 -> 9
      [] col = 1051 -> 10
      [] OTHER -> None

\* Block::new panics ("Неизвестный цвет") on a token outside the table
Block_new_panics(colors) == \E i \in 1..Len(colors) : ColorShift(colors[i]) = None

Block_new(colors, alphabet_len) ==
    [rotors |-> [i \in 1..Len(colors) |-> Rotor_new(ColorShift(colors[i]), alphabet_len)]]

\* the forward loop of Block::process_index from rotor j on
RECURSIVE ForwardFrom(_, _, _)
ForwardFrom(rotors, j, idx) ==
    IF j > Len(rotors) THEN idx
    ELSE ForwardFrom(rotors, j + 1, Rotor_encode_index(rotors[j], idx, FALSE))

\* BackwardFrom that stops before the first rotor
RECURSIVE BackwardFromStopEarly(_, _, _)
BackwardFromStopEarly(rotors, j, idx) ==
    IF j < 2 THEN idx
    ELSE BackwardFromStopEarly(rotors, j - 1, Rotor_encode_index(rotors[j], idx, TRUE))

\* the reverse loop of Block::process_index from rotor j down
RECURSIVE BackwardFrom(_, _, _)
BackwardFrom(rotors, j, idx) ==
    IF j < 1 THEN idx
    ELSE BackwardFrom(rotors, j - 1, Rotor_encode_index(rotors[j], idx, TRUE))

Block_process_index(b, idx, reverse) ==
    IF ~reverse
    THEN ForwardFrom(b.rotors, 1, idx)
    ELSE BackwardFrom(b.rotors, Len(b.rotors), idx)

\* RotateFrom without the carry test: every rotor steps on every call
RECURSIVE RotateAll(_, _, _)
RotateAll(rotors, j, carry) ==
    IF j > Len(rotors)
    THEN [rotors |-> rotors, stepped |-> {}, wrapped |-> {}]
    ELSE LET rest == RotateAll([rotors EXCEPT ![j] = Rotor_rotate(rotors[j])],
                               j + 1, carry)
         IN  [rotors  |-> rest.rotors,
              stepped |-> rest.stepped \cup {j},
              wrapped |-> rest.wrapped \cup
                            (IF RotorWrapped(rotors[j]) THEN {j} ELSE {})]

\* RotateFrom with the carry dropped: only the first rotor ever steps
RotateFirstOnly(rotors, j, carry) ==
    IF j > Len(rotors) \/ ~carry
    THEN [rotors |-> rotors, stepped |-> {}, wrapped |-> {}]
    ELSE [rotors  |-> [rotors EXCEPT ![j] = Rotor_rotate(rotors[j])],
          stepped |-> {j},
          wrapped |-> IF RotorWrapped(rotors[j]) THEN {j} ELSE {}]

\* the loop of Block::rotate from rotor j on with the carry flag: the rotors
\* after the call, the rotors it stepped and the rotors that wrapped
RECURSIVE RotateFrom(_, _, _)
RotateFrom(rotors, j, carry) ==
    IF j > Len(rotors) \/ ~carry
    THEN [rotors |-> rotors, stepped |-> {}, wrapped |-> {}]
    ELSE LET rest == RotateFrom([rotors EXCEPT ![j] = Rotor_rotate(rotors[j])],
                                j + 1, RotorWrapped(rotors[j]))
         IN  [rotors  |-> rest.rotors,
              stepped |-> rest.stepped \cup {j},
              wrapped |-> rest.wrapped \cup
                            (IF RotorWrapped(rotors[j]) THEN {j} ELSE {})]

Block_rotate(b) == [b EXCEPT !.rotors = RotateFrom(b.rotors, 1, TRUE).rotors]

Block_save_positions(b) ==
    [i \in 1..Len(b.rotors) |-> Rotor_save_position(b.rotors[i])]

\* Block::load_positions: zip stops at the shorter of rotors and pos
Block_load_positions(b, pos) ==
    [b EXCEPT !.rotors =
        [i \in 1..Len(b.rotors) |->
            IF i <= Len(pos) THEN Rotor_load_position(b.rotors[i], pos[i])
            ELSE b.rotors[i]]]

(***************************************************************************)
(* Reflector                                                               *)
(***************************************************************************)
\* Reflector::new writing len - i in slot i
Reflector_new_off_by_one(alphabet) ==
    LET len == TLen(alphabet)
    IN  [map_idx |-> [i \in 0..(len - 1) |-> len - i]]

\* Reflector::new writing (len - i) mod len in slot i
Reflector_new_rotated(alphabet) ==
    LET len == TLen(alphabet)
    IN  [map_idx |-> [i \in 0..(len - 1) |-> (len - i) % len]]

Reflector_new(alphabet) ==
    LET len == TLen(alphabet)
    IN  [map_idx |-> [i \in 0..(len - 1) |-> len - 1 - i]]

Reflector_reflect_index(rf, idx) == rf.map_idx[idx]

(***************************************************************************)
(* EnigmaSudnogoDnya                                                       *)
(***************************************************************************)
\* PlugboardFrom that skips a pair with an unmapped character instead of
\* panicking
RECURSIVE PlugboardFromSkip(_, _, _, _)
PlugboardFromSkip(index_map, pairs, k, map) ==
    IF k > Len(pairs) THEN [panic |-> FALSE, map |-> map]
    ELSE LET ia == AlphabetIndex_get(index_map, pairs[k][1])
             ib == AlphabetIndex_get(index_map, pairs[k][2])
         IN  IF ia = None \/ ib = None
             THEN PlugboardFromSkip(index_map, pairs, k + 1, map)
             ELSE PlugboardFromSkip(index_map, pairs, k + 1,
                                    [[map EXCEPT ![ia] = ib] EXCEPT ![ib] = ia])

\* the plugboard loop of EnigmaSudnogoDnya::new from pair k on: each pair
\* (a, b) sets map[ia] = ib and then map[ib] = ia; a character the index
\* table does not map panics (expect "Символ вне алфавита")
RECURSIVE PlugboardFrom(_, _, _, _)
PlugboardFrom(index_map, pairs, k, map) ==
    IF k > Len(pairs) THEN [panic |-> FALSE, map |-> map]
    ELSE LET ia == AlphabetIndex_get(index_map, pairs[k][1])
             ib == AlphabetIndex_get(index_map, pairs[k][2])
         IN  IF ia = None \/ ib = None
             THEN [panic |-> TRUE, map |-> map]
             ELSE PlugboardFrom(index_map, pairs, k + 1,
                                [[map EXCEPT ![ia] = ib] EXCEPT ![ib] = ia])

\* a construction that panicked: no machine exists
Panicked(err) == [status |-> "panic", error |-> err]

\* no machine constructed yet
NotBuilt == [status |-> "none"]

\* RotorPositionsPanic without the panic: a length mismatch is ignored
RotorPositionsPanicNever(c) == FALSE

\* the else-if of EnigmaSudnogoDnya::new that panics on rotor_positions,
\* reached when rotor_positions.len() != blocks.len()
RotorPositionsPanic(c) == c.rotor_positions # <<>>

\* EnigmaSudnogoDnya::new.  The panics, in the order the code reaches them:
\* "OutsideAlphabet" (expect "Символ вне алфавита"), "UnknownColor"
\* (panic "Неизвестный цвет"), "RotorPositionsLen" (panic "Ошибка:
\* rotor_positions.len() != blocks.len()").
EnigmaSudnogoDnya_new(c) ==
    LET alphabet     == Table(AlphStr(c.alphabet))
        alphabet_len == TLen(alphabet)
        index_map    == AlphabetIndex_new(alphabet)
        pb           == PlugboardFrom(index_map, c.plugboard, 1,
                                      [i \in 0..(alphabet_len - 1) |-> i])
        blocks       == [b \in 1..Len(c.blocks) |-> Block_new(c.blocks[b], alphabet_len)]
        loaded       == [b \in 1..Len(c.blocks) |->
                            Block_load_positions(blocks[b], c.rotor_positions[b])]
        built(bs)    == [status        |-> "ok",
                         alphabet      |-> alphabet,
                         index_map     |-> index_map,
                         plugboard_map |-> pb.map,
                         blocks        |-> bs,
                         reflector     |-> Reflector_new(alphabet)]
    IN  IF pb.panic THEN Panicked("OutsideAlphabet")
        ELSE IF \E b \in 1..Len(c.blocks) : Block_new_panics(c.blocks[b])
        THEN Panicked("UnknownColor")
        ELSE IF Len(c.rotor_positions) = Len(c.blocks) THEN built(loaded)
        ELSE IF RotorPositionsPanic(c) THEN Panicked("RotorPositionsLen")
        ELSE built(blocks)

\* str::to_lowercase on one character, for the characters the model draws:
\* A..Z, the Cyrillic capitals U+0400..U+042F, U+0130 (İ), whose lowercase
\* is the two characters U+0069 U+0307, and Σ (U+03A3) where it is not
\* word-final
LowerChar(c) ==
    IF c \in 65..90 THEN <<c + 32>>
    ELSE IF c \in 1040..1071 THEN <<c + 32>>
    ELSE IF c \in 1024..1039 THEN <<c + 80>>
    ELSE IF c = 304 THEN <<105, 775>>
    ELSE IF c = 931 THEN <<963>>
    ELSE <<c>>

\* the Unicode properties Cased and Case_Ignorable, on the characters the
\* model draws: the Latin and Cyrillic letters, İ, Σ σ ς; the combining
\* marks U+0300..U+036F and ' . :
Cased(c) ==
    \/ c \in 65..90
    \/ c \in 97..122
    \/ c \in 1024..1119
    \/ c \in {304, 931, 962, 963}

Case_Ignorable(c) == c \in 768..879 \/ c \in {39, 46, 58}

Reverse(s) == [i \in 1..Len(s) |-> s[Len(s) + 1 - i]]

\* case_ignorable_then_cased of str::to_lowercase: the first character that
\* is not case-ignorable exists and is cased
RECURSIVE case_ignorable_then_cased(_)
case_ignorable_then_cased(chars) ==
    IF chars = <<>> THEN FALSE
    ELSE IF Case_Ignorable(Head(chars)) THEN case_ignorable_then_cased(Tail(chars))
    ELSE Cased(Head(chars))

\* map_uppercase_sigma of str::to_lowercase: Σ at i is ς (U+03C2) at the end
\* of a word and σ (U+03C3) elsewhere
map_uppercase_sigma(from, i) ==
    LET is_word_final ==
            /\ case_ignorable_then_cased(Reverse(SubSeq(from, 1, i - 1)))
            /\ ~case_ignorable_then_cased(SubSeq(from, i + 1, Len(from)))
    IN  IF is_word_final THEN 962 ELSE 963

\* the loop of str::to_lowercase from character i on
RECURSIVE LowerFrom(_, _)
LowerFrom(msg, i) ==
    IF i > Len(msg) THEN <<>>
    ELSE (IF msg[i] = 931 THEN <<map_uppercase_sigma(msg, i)>> ELSE LowerChar(msg[i]))
            \o LowerFrom(msg, i + 1)

\* msg.to_lowercase()
ToLowercase(msg) == LowerFrom(msg, 1)

\* forward pass of encrypt through the blocks from block b on
RECURSIVE BlocksForward(_, _, _)
BlocksForward(blocks, b, idx) ==
    IF b > Len(blocks) THEN idx
    ELSE BlocksForward(blocks, b + 1, Block_process_index(blocks[b], idx, FALSE))

\* reverse pass of encrypt through the blocks from block b down
RECURSIVE BlocksBackward(_, _, _)
BlocksBackward(blocks, b, idx) ==
    IF b < 1 THEN idx
    ELSE BlocksBackward(blocks, b - 1, Block_process_index(blocks[b], idx, TRUE))

\* TransformIndex without the plugboard on the way out
TransformIndexOneWay(m, idx) ==
    LET i1 == m.plugboard_map[idx]
        i2 == BlocksForward(m.blocks, 1, i1)
        i3 == Reflector_reflect_index(m.reflector, i2)
    IN  BlocksBackward(m.blocks, Len(m.blocks), i3)

\* the per-symbol transform of encrypt: plugboard, blocks forward, reflector,
\* blocks in reverse, plugboard
TransformIndex(m, idx) ==
    LET i1 == m.plugboard_map[idx]
        i2 == BlocksForward(m.blocks, 1, i1)
        i3 == Reflector_reflect_index(m.reflector, i2)
        i4 == BlocksBackward(m.blocks, Len(m.blocks), i3)
    IN  m.plugboard_map[i4]

\* the per-symbol transform panics: a table is indexed outside its bounds
\* (plugboard_map and map_idx are Vecs) or a rotor divides by a size of 0
TransformPanics(m, idx) ==
    \/ \E b \in 1..Len(m.blocks) : \E i \in 1..Len(m.blocks[b].rotors) :
          m.blocks[b].rotors[i].size = 0
    \/ idx \notin DOMAIN m.plugboard_map
    \/ LET i2 == BlocksForward(m.blocks, 1, m.plugboard_map[idx])
       IN  \/ i2 \notin DOMAIN m.reflector.map_idx
           \/ BlocksBackward(m.blocks, Len(m.blocks),
                             Reflector_reflect_index(m.reflector, i2))
                 \notin DOMAIN m.plugboard_map

\* RotateBlocks with a carry between blocks: a block after the first is
\* rotated only when the first rotor of the block before it wrapped
RotateBlocksCarried(blocks) ==
    [b \in 1..Len(blocks) |->
        IF b = 1 \/ RotorWrapped(blocks[b - 1].rotors[1])
        THEN Block_rotate(blocks[b]) ELSE blocks[b]]

\* for blk in &mut self.blocks { blk.rotate(); }
RotateBlocks(blocks) == [b \in 1..Len(blocks) |-> Block_rotate(blocks[b])]

\* the rotor positions of a machine, per block
SavePositions(m) == [b \in 1..Len(m.blocks) |-> Block_save_positions(m.blocks[b])]

(***************************************************************************)
(* The configurations and messages the model draws.                        *)
(***************************************************************************)
\* cfg.alphabet: the two tags main writes, and a tag it never writes
Tags == {"latin", "cyrillic", "greek"}

\* a character that the alphabet chosen by tag does not hold: а (U+0430) for
\* Latin; U+0450, inside the spanned range а..ё, for Cyrillic
OutsideChar(tag) == IF tag = "latin" THEN 1072 ELSE 1104

\* plugboard pairs: two pairs that share a character, a self-pair that
\* shares its character with a pair, and a pair with a character outside the
\* alphabet (a[7] is g, or ё)
PairSamples(tag) ==
    LET a == AlphStr(tag)
    IN  {<<a[1], a[2]>>, <<a[2], a[7]>>, <<a[7], a[7]>>, <<a[4], OutsideChar(tag)>>}

\* cfg.plugboard
Plugboards(tag) == SeqsUpTo(PairSamples(tag), MaxPairs)

\* cfg.blocks: no block, КБ, КБ and ЛК, and a block with the unknown token к
BlockSamples ==
    {<<>>, << <<1050, 1041>> >>, << <<1050, 1041>>, <<1051, 1050>> >>,
     << <<1050, 1082>> >>}

\* cfg.rotor_positions: empty, one or two offset vectors, offsets >= N
PositionSamples ==
    {<<>>, << <<5>> >>, << <<25, 40, 3>> >>, << <<25, 40>>, <<32, 7>> >>}

Config(t, p, b, r) ==
    [alphabet |-> t, plugboard |-> p, blocks |-> b, rotor_positions |-> r]

\* the configurations: for the two tags main writes, every plugboard with
\* the two-block rotor bank, and every rotor bank with no pair and with one
\* pair; for the tag it never writes, the two-block rotor bank with no pair
\* and with one pair
Configs ==
    UNION {
        {Config(t, p, << <<1050, 1041>>, <<1051, 1050>> >>, << <<25, 40>>, <<32, 7>> >>) :
            p \in Plugboards(t)}
        \cup
        {Config(t, p, b, r) :
            p \in {<<>>, << <<AlphStr(t)[1], AlphStr(t)[2]>> >>},
            b \in BlockSamples, r \in PositionSamples}
        : t \in Tags \ {"greek"}}
    \cup
    {Config("greek", p, << <<1050, 1041>>, <<1051, 1050>> >>, << <<25, 40>>, <<32, 7>> >>) :
        p \in {<<>>, << <<AlphStr("greek")[1], AlphStr("greek")[2]>> >>}}

\* the characters of messages: two lower-case letters, a capital, a
\* character below the alphabet's range, and İ (whose lowercase is two
\* characters) or the in-range U+0450
TextChars(tag) ==
    IF tag = "latin" THEN {97, 122, 66, 49, 304} ELSE {1072, 1105, 1041, 49, 1104}

Texts(tag) == SeqsUpTo(TextChars(tag), MaxLen)

\* the rotor strings of SpecBlock: one, two and three rotors
ColorSamples == {<<1050>>, <<1050, 1041>>, <<1050, 1041, 1063>>}

\* the offsets a block of SpecBlock is loaded with
StartSamples == {<<>>, <<25, 40, 3>>}

(***************************************************************************)
(* State.  cfg is the configuration record; mach[m] is machine m (enc and  *)
(* dec, as in main's benchmark); call[m] is the frame of m's encrypt call: *)
(* pc, msg, lower, input_indices, output_indices, out, and trace, the      *)
(* rotor positions at the call's start and after each character.  blk,     *)
(* start, ncalls, stepped and wrapped are a single Block under repeated    *)
(* rotate calls: its offsets at the start, the calls made, and how often   *)
(* each rotor was stepped and wrapped.                                     *)
(***************************************************************************)
Machines == {"enc", "dec"}

Idle ==
    [pc |-> "idle", msg |-> <<>>, lower |-> <<>>, input_indices |-> <<>>,
     output_indices |-> <<>>, out |-> <<>>, trace |-> <<>>, prior |-> <<>>]

NoBlock == [rotors |-> <<>>]

NoConfig == [alphabet |-> "latin", plugboard |-> <<>>, blocks |-> <<>>,
             rotor_positions |-> <<>>]

Init ==
    /\ cfg \in Configs
    /\ mach = [m \in Machines |-> NotBuilt]
    /\ call = [m \in Machines |-> Idle]
    /\ blk = NoBlock
    /\ start = <<>>
    /\ ncalls = 0
    /\ stepped = <<>>
    /\ wrapped = <<>>

\* let mut enc = EnigmaSudnogoDnya::new(&cfg); dec is built once enc's
\* encrypt has returned
New(m) ==
    /\ mach[m].status = "none"
    /\ m = "dec" => call["enc"].pc = "done"
    /\ mach' = [mach EXCEPT ![m] = EnigmaSudnogoDnya_new(cfg)]
    /\ UNCHANGED <<cfg, call, blk, start, ncalls, stepped, wrapped>>

\* the frame of an encrypt call on machine record m at its main loop: lower
\* and input_indices are computed; prior holds the calls that returned
\* before on the same machine
StartFrame(m, msg, prior) ==
    LET lower == ToLowercase(msg)
    IN  [pc             |-> "loop",
         msg            |-> msg,
         lower          |-> lower,
         input_indices  |-> [i \in 1..Len(lower) |->
                               AlphabetIndex_get(m.index_map, lower[i])],
         output_indices |-> <<>>,
         out            |-> <<>>,
         trace          |-> <<SavePositions(m)>>,
         prior          |-> prior]

\* the returned call of a frame, as kept in prior
Returned(frame) == [msg |-> frame.msg, out |-> frame.out, trace |-> frame.trace]

\* encrypt, up to its main loop: lower and input_indices
EncryptBegin(m, msg) ==
    /\ mach[m].status = "ok"
    /\ call[m].pc = "idle"
    /\ call' = [call EXCEPT ![m] = StartFrame(mach[m], msg, <<>>)]
    /\ UNCHANGED <<cfg, mach, blk, start, ncalls, stepped, wrapped>>

\* EncryptAgain on a machine rebuilt from cfg before the call
EncryptAgainRebuilt(m, msg) ==
    /\ mach[m].status = "ok"
    /\ call[m].pc = "done"
    /\ call[m].prior = <<>>
    /\ mach' = [mach EXCEPT ![m] = EnigmaSudnogoDnya_new(cfg)]
    /\ call' = [call EXCEPT ![m] =
                  StartFrame(mach'[m], msg, Append(call[m].prior, Returned(call[m])))]
    /\ UNCHANGED <<cfg, blk, start, ncalls, stepped, wrapped>>

\* a second encrypt call on the same machine, without rebuilding it: the
\* rotors are where the call before left them
EncryptAgain(m, msg) ==
    /\ mach[m].status = "ok"
    /\ call[m].pc = "done"
    /\ call[m].prior = <<>>
    /\ call' = [call EXCEPT ![m] =
                  StartFrame(mach[m], msg, Append(call[m].prior, Returned(call[m])))]
    /\ UNCHANGED <<cfg, mach, blk, start, ncalls, stepped, wrapped>>

\* StepMachine that rotates the blocks for every character
StepMachineAlways(m, maybe_idx) == [m EXCEPT !.blocks = RotateBlocks(m.blocks)]

\* the machine after one iteration of encrypt's main loop on maybe_idx
StepMachine(m, maybe_idx) ==
    IF maybe_idx # None THEN [m EXCEPT !.blocks = RotateBlocks(m.blocks)] ELSE m

\* what one iteration of encrypt's main loop pushes for maybe_idx
StepOutput(m, maybe_idx) ==
    IF maybe_idx # None THEN TransformIndex(m, maybe_idx) ELSE None

\* one iteration of encrypt's main loop; a panic ends the call
EncryptStep(m) ==
    /\ call[m].pc = "loop"
    /\ Len(call[m].output_indices) < Len(call[m].input_indices)
    /\ LET maybe_idx == call[m].input_indices[Len(call[m].output_indices) + 1]
           after     == StepMachine(mach[m], maybe_idx)
       IN  IF maybe_idx # None /\ TransformPanics(mach[m], maybe_idx)
           THEN /\ call' = [call EXCEPT ![m].pc = "panic"]
                /\ UNCHANGED mach
           ELSE /\ mach' = [mach EXCEPT ![m] = after]
                /\ call' = [call EXCEPT
                              ![m].output_indices = Append(@, StepOutput(mach[m], maybe_idx)),
                              ![m].trace = Append(@, SavePositions(after))]
    /\ UNCHANGED <<cfg, blk, start, ncalls, stepped, wrapped>>

IsSome(maybe_idx) == maybe_idx # None

\* AssembleOut that leaves the unmapped characters out of the string
AssembleOutMappedOnly(m, output_indices, lower) ==
    LET mapped == SelectSeq(output_indices, IsSome)
    IN  [i \in 1..Len(mapped) |-> m.alphabet[mapped[i]]]

\* the string encrypt assembles from output_indices and lower
AssembleOut(m, output_indices, lower) ==
    [i \in 1..Len(output_indices) |->
        IF output_indices[i] # None THEN m.alphabet[output_indices[i]] ELSE lower[i]]

\* encrypt's last loop panics: alphabet is indexed outside its bounds, or
\* it_lower.next() is None when unwrapped
AssemblePanics(m, output_indices, lower) ==
    \/ Len(lower) < Len(output_indices)
    \/ \E i \in 1..Len(output_indices) :
          output_indices[i] # None /\ output_indices[i] \notin DOMAIN m.alphabet

\* EncryptEnd that writes the rotor positions back into cfg.rotor_positions
EncryptEndSaving(m) ==
    /\ call[m].pc = "loop"
    /\ Len(call[m].output_indices) = Len(call[m].input_indices)
    /\ call' = [call EXCEPT
                  ![m].pc = "done",
                  ![m].out = AssembleOut(mach[m], call[m].output_indices, call[m].lower)]
    /\ cfg' = [cfg EXCEPT !.rotor_positions = SavePositions(mach[m])]
    /\ UNCHANGED <<mach, blk, start, ncalls, stepped, wrapped>>

\* encrypt's last loop and return
EncryptEnd(m) ==
    /\ call[m].pc = "loop"
    /\ Len(call[m].output_indices) = Len(call[m].input_indices)
    /\ IF AssemblePanics(mach[m], call[m].output_indices, call[m].lower)
       THEN call' = [call EXCEPT ![m].pc = "panic"]
       ELSE call' = [call EXCEPT
                       ![m].pc = "done",
                       ![m].out = AssembleOut(mach[m], call[m].output_indices,
                                              call[m].lower)]
    /\ UNCHANGED <<cfg, mach, blk, start, ncalls, stepped, wrapped>>

\* the messages main gives m: any text to enc, enc's output to dec
Messages(m) == IF m = "enc" THEN Texts(cfg.alphabet) ELSE {call["enc"].out}

Next ==
    \E m \in Machines :
        \/ New(m)
        \/ \E msg \in Messages(m) : EncryptBegin(m, msg)
        \/ EncryptStep(m)
        \/ EncryptEnd(m)

Spec == Init /\ [][Next]_vars

(***************************************************************************)
(* SpecStream: enc encrypts a text in two calls, t1 and then t2, without   *)
(* being rebuilt; dec is then built from the same cfg and encrypts t1      *)
(* followed by t2 in one call.                                             *)
(***************************************************************************)
\* the characters of streamed messages: a letter of the alphabet, Σ, whose
\* lowercase depends on its neighbours, and a digit
StreamChars(tag) == IF tag = "latin" THEN {97, 931, 49} ELSE {1072, 931, 49}

StreamTexts(tag) == SeqsUpTo(StreamChars(tag), MaxLen)

\* the configurations of SpecStream: one plugboard pair and a rotor bank
StreamConfigs ==
    {c \in Configs : /\ c.alphabet \in {"latin", "cyrillic"}
                     /\ Len(c.plugboard) = 1
                     /\ c.blocks # <<>>}

InitStream ==
    /\ cfg \in StreamConfigs
    /\ mach = [m \in Machines |-> NotBuilt]
    /\ call = [m \in Machines |-> Idle]
    /\ blk = NoBlock
    /\ start = <<>>
    /\ ncalls = 0
    /\ stepped = <<>>
    /\ wrapped = <<>>

\* both parts were encrypted by enc
Streamed == call["enc"].pc = "done" /\ Len(call["enc"].prior) = 1

NextStream ==
    \/ New("enc")
    \/ \E t1 \in StreamTexts(cfg.alphabet) : EncryptBegin("enc", t1)
    \/ \E t2 \in StreamTexts(cfg.alphabet) : EncryptAgain("enc", t2)
    \/ Streamed /\ New("dec")
    \/ EncryptBegin("dec", call["enc"].prior[1].msg \o call["enc"].msg)
    \/ \E m \in Machines : EncryptStep(m)
    \/ \E m \in Machines : EncryptEnd(m)

SpecStream == InitStream /\ [][NextStream]_vars

(***************************************************************************)
(* SpecBlock: one Block, built by Block::new and loaded by load_positions, *)
(* under repeated Block::rotate calls.                                     *)
(***************************************************************************)
\* the alphabet lengths of SpecBlock: those of the two built-in alphabets,
\* and a small one, with which a block of three rotors runs through all its
\* position vectors within MaxCalls calls
BlockLens == {Len(LatinAlphabet), Len(CyrillicAlphabet), SmallSize}

InitBlock ==
    /\ cfg = NoConfig
    /\ mach = [m \in Machines |-> NotBuilt]
    /\ call = [m \in Machines |-> Idle]
    /\ \E alphabet_len \in BlockLens, colors \in ColorSamples, pos \in StartSamples :
          blk = Block_load_positions(Block_new(colors, alphabet_len), pos)
    /\ start = Block_save_positions(blk)
    /\ ncalls = 0
    /\ stepped = [i \in 1..Len(blk.rotors) |-> 0]
    /\ wrapped = [i \in 1..Len(blk.rotors) |-> 0]

BlockRotate ==
    /\ ncalls < MaxCalls
    /\ blk' = Block_rotate(blk)
    /\ ncalls' = ncalls + 1
    /\ LET r == RotateFrom(blk.rotors, 1, TRUE)
       IN  /\ stepped' = [i \in 1..Len(blk.rotors) |->
                            stepped[i] + (IF i \in r.stepped THEN 1 ELSE 0)]
           /\ wrapped' = [i \in 1..Len(blk.rotors) |->
                            wrapped[i] + (IF i \in r.wrapped THEN 1 ELSE 0)]
    /\ UNCHANGED <<cfg, mach, call, start>>

NextBlock == BlockRotate

SpecBlock == InitBlock /\ [][NextBlock]_vars

(***************************************************************************)
(* SpecRotor: one Rotor of any shift up to MaxShift and any size up to     *)
(* MaxSize, built by Rotor::new and taken through one turn by              *)
(* Rotor::rotate.                                                          *)
(***************************************************************************)
InitRotor ==
    /\ cfg = NoConfig
    /\ mach = [m \in Machines |-> NotBuilt]
    /\ call = [m \in Machines |-> Idle]
    /\ \E shift \in 0..MaxShift, size \in 1..MaxSize :
          blk = [rotors |-> <<Rotor_new(shift, size)>>]
    /\ start = Block_save_positions(blk)
    /\ ncalls = 0
    /\ stepped = <<0>>
    /\ wrapped = <<0>>

RotorRotate ==
    /\ ncalls + 1 < blk.rotors[1].size
    /\ blk' = [blk EXCEPT !.rotors[1] = Rotor_rotate(@)]
    /\ ncalls' = ncalls + 1
    /\ stepped' = <<stepped[1] + 1>>
    /\ wrapped' = <<wrapped[1] + (IF RotorWrapped(blk.rotors[1]) THEN 1 ELSE 0)>>
    /\ UNCHANGED <<cfg, mach, call, start>>

NextRotor == RotorRotate

SpecRotor == InitRotor /\ [][NextRotor]_vars

(***************************************************************************)
(* SpecReflector: the Reflector of an alphabet of any length up to         *)
(* MaxSize, applied to an index below the length and then to the result.   *)
(* mach["enc"] holds the alphabet and the reflector alone; the index is    *)
(* input_indices[1] of enc's frame, the results are its output_indices.    *)
(***************************************************************************)
\* an alphabet of n characters: a slice (&[char]) from U+0061 on
AnyAlphabet(n) == Table([i \in 1..n |-> 96 + i])

InitReflector ==
    /\ cfg = NoConfig
    /\ \E n \in 1..MaxSize, i \in 0..(MaxSize - 1) :
          /\ i < n
          /\ mach = [m \in Machines |->
                        IF m = "enc"
                        THEN [status    |-> "reflector",
                              alphabet  |-> AnyAlphabet(n),
                              reflector |-> Reflector_new(AnyAlphabet(n))]
                        ELSE NotBuilt]
          /\ call = [m \in Machines |->
                        IF m = "enc" THEN [Idle EXCEPT !.input_indices = <<i>>]
                        ELSE Idle]
    /\ blk = NoBlock
    /\ start = <<>>
    /\ ncalls = 0
    /\ stepped = <<>>
    /\ wrapped = <<>>

\* self.map_idx[idx], on the index or on the result before; indexing
\* outside the Vec panics
Reflect ==
    /\ call["enc"].pc = "idle"
    /\ Len(call["enc"].output_indices) < 2
    /\ LET out == call["enc"].output_indices
           idx == IF out = <<>> THEN call["enc"].input_indices[1] ELSE out[Len(out)]
       IN  IF idx \notin DOMAIN mach["enc"].reflector.map_idx
           THEN call' = [call EXCEPT !["enc"].pc = "panic"]
           ELSE call' = [call EXCEPT !["enc"].output_indices =
                            Append(@, Reflector_reflect_index(mach["enc"].reflector, idx))]
    /\ UNCHANGED <<cfg, mach, blk, start, ncalls, stepped, wrapped>>

NextReflector == Reflect

SpecReflector == InitReflector /\ [][NextReflector]_vars

(***************************************************************************)
(* SpecKeys: enc is built from cfg and takes up to MaxKeys mapped          *)
(* characters, one per step; ncalls counts them.  Each state is a rotor    *)
(* state in which the per-symbol transform can be asked about every index. *)
(***************************************************************************)
InitKeys ==
    /\ cfg \in Configs
    /\ mach = [m \in Machines |-> NotBuilt]
    /\ call = [m \in Machines |-> Idle]
    /\ blk = NoBlock
    /\ start = <<>>
    /\ ncalls = 0
    /\ stepped = <<>>
    /\ wrapped = <<>>

\* one iteration of encrypt's main loop on a mapped character, as far as
\* the machine goes
KeyPress ==
    /\ mach["enc"].status = "ok"
    /\ ncalls < MaxKeys
    /\ mach' = [mach EXCEPT !["enc"] = StepMachine(mach["enc"], 0)]
    /\ ncalls' = ncalls + 1
    /\ UNCHANGED <<cfg, call, blk, start, stepped, wrapped>>

NextKeys ==
    \/ New("enc")
    \/ KeyPress

SpecKeys == InitKeys /\ [][NextKeys]_vars

(***************************************************************************)
(* Properties.                                                             *)
(***************************************************************************)
\* construction of m has run (it built a machine or panicked)
Constructed(m) == mach[m].status # "none"

Built(m) == mach[m].status = "ok"

Aborted(m) == mach[m].status = "panic"

\* m's encrypt call has returned
Done(m) == call[m].pc = "done"

\* the characters of the alphabet cfg selects
AlphabetChars == Range(AlphStr(cfg.alphabet))

AlphabetLen == Len(AlphStr(cfg.alphabet))

\* the characters of plugboard pair k
PairChars(k) == {cfg.plugboard[k][1], cfg.plugboard[k][2]}

\* some character occurs more than once among the plugboard pairs: in two
\* different pairs, or paired with itself
HasRepeatedChar ==
    \E k \in 1..Len(cfg.plugboard) :
        \/ cfg.plugboard[k][1] = cfg.plugboard[k][2]
        \/ \E l \in 1..Len(cfg.plugboard) : l # k /\ PairChars(k) \cap PairChars(l) # {}

\* some plugboard character is not a character of the chosen alphabet
HasOutsideChar ==
    \E k \in 1..Len(cfg.plugboard) : ~(PairChars(k) \subseteq AlphabetChars)

\* some block string holds a token outside the color table
HasUnknownToken ==
    \E b \in 1..Len(cfg.blocks) : ~(Range(cfg.blocks[b]) \subseteq ColorTokens)

\* the Latin scenario: one block of rotors with shifts 1 and 2 (КБ), both at
\* position 0, no plugboard pair, and "a" given to a fresh machine
Scenario ==
    /\ cfg.alphabet = "latin"
    /\ cfg.plugboard = <<>>
    /\ cfg.blocks = << <<1050, 1041>> >>
    /\ cfg.rotor_positions = <<>>
    /\ call["enc"].msg = <<97>>

\* C1: two machines built from one accepted configuration, the second fed
\* the first's output for a text of in-alphabet characters only, return the
\* case-folded text.
C1_RoundTrip ==
    (Done("dec") /\ Range(call["enc"].msg) \subseteq AlphabetChars)
        => call["dec"].out = ToLowercase(call["enc"].msg)

\* C2: the plugboard table of every constructed machine is an involution.
C2_PlugboardInvolution ==
    \A m \in Machines :
        Built(m) =>
            \A i \in 0..(AlphabetLen - 1) :
                mach[m].plugboard_map[mach[m].plugboard_map[i]] = i

\* C3: construction aborts whenever a character occurs more than once among
\* the plugboard pairs.
C3_RepeatedCharAborts ==
    \A m \in Machines : (Constructed(m) /\ HasRepeatedChar) => Aborted(m)

\* C4: a character of the case-folded input that the codec does not map is
\* copied to the same position of the output, and processing it leaves the
\* rotor positions of every block as they were.
C4_PassThrough ==
    \A m \in Machines :
        \A i \in 1..Len(call[m].output_indices) :
            call[m].input_indices[i] = None =>
                /\ call[m].trace[i + 1] = call[m].trace[i]
                /\ Done(m) => /\ Len(call[m].out) = Len(call[m].lower)
                              /\ call[m].out[i] = call[m].lower[i]

\* an encrypt call that returned after an unmapped character followed a
\* mapped one, on a machine with rotors
C4_Witness ==
    \E m \in Machines :
        /\ Done(m)
        /\ mach[m].blocks # <<>>
        /\ \E i \in 2..Len(call[m].input_indices) :
              call[m].input_indices[i] = None /\ call[m].input_indices[i - 1] # None

\* C5: in the Latin scenario encrypt("a") returns "t".
C5_ScenarioOutput == (Scenario /\ Done("enc")) => call["enc"].out = <<116>>

C5_Witness == Scenario /\ Done("enc") /\ call["enc"].out = <<116>>

\* C6 as stated: in the Latin scenario both rotors are at position 1 after
\* "a" is encrypted.
C6_BothRotorsAdvance ==
    (Scenario /\ Done("enc")) => SavePositions(mach["enc"]) = << <<1, 1>> >>

\* C6 as amended: in the Latin scenario, after "a" is encrypted the first
\* rotor is at position 1 and the second rotor is still at position 0.
C6_FirstRotorAdvances ==
    (Scenario /\ Done("enc")) => SavePositions(mach["enc"]) = << <<1, 0>> >>

C6_Witness ==
    Scenario /\ Done("enc") /\ mach["enc"].blocks[1].rotors[1].position = 1

\* the block of SpecBlock started with every rotor at position 0
StartsAtZero == \A i \in 1..Len(start) : start[i] = 0

\* C7: from all rotors at 0, after s0 calls of Block::rotate the first rotor
\* has wrapped exactly once and is at 0 and the second has stepped exactly
\* once; after s0 * s1 calls the third has stepped exactly once.
C7_SteppingOdometer ==
    StartsAtZero =>
        /\ (Len(blk.rotors) >= 1 /\ ncalls = blk.rotors[1].size) =>
              /\ wrapped[1] = 1
              /\ blk.rotors[1].position = 0
              /\ Len(blk.rotors) >= 2 => stepped[2] = 1
        /\ (Len(blk.rotors) >= 3 /\ ncalls = blk.rotors[1].size * blk.rotors[2].size) =>
              stepped[3] = 1

C7_Witness ==
    /\ StartsAtZero
    /\ Len(blk.rotors) = 3
    /\ ncalls = blk.rotors[1].size * blk.rotors[2].size
    /\ stepped[3] = 1

\* C8: construction aborts when rotor_positions is non-empty and its length
\* differs from the number of blocks (with the rotor_positions panic when
\* nothing before it panicked); when rotor_positions is empty that panic is
\* not raised, construction succeeds for a plugboard and blocks it accepts,
\* and every rotor of the new machine is at position 0.
C8_OuterLength ==
    \A m \in Machines :
        Constructed(m) =>
            /\ (cfg.rotor_positions # <<>> /\ Len(cfg.rotor_positions) # Len(cfg.blocks)) =>
                  /\ Aborted(m)
                  /\ (~HasOutsideChar /\ ~HasUnknownToken) =>
                        mach[m].error = "RotorPositionsLen"
            /\ cfg.rotor_positions = <<>> =>
                  /\ Aborted(m) => mach[m].error # "RotorPositionsLen"
                  /\ (~HasOutsideChar /\ ~HasUnknownToken) => Built(m)
                  /\ (Built(m) /\ call[m].pc = "idle") =>
                        \A b \in 1..Len(mach[m].blocks) :
                            \A i \in 1..Len(mach[m].blocks[b].rotors) :
                                mach[m].blocks[b].rotors[i].position = 0

C8_Witness ==
    /\ Aborted("enc")
    /\ mach["enc"].error = "RotorPositionsLen"
    /\ Len(cfg.rotor_positions) < Len(cfg.blocks)

\* C9: construction aborts when rotor_positions is non-empty and an inner
\* offset list is not as long as the rotor count of its block.
C9_InnerLengthAborts ==
    \A m \in Machines :
        (/\ Constructed(m)
         /\ \E b \in 1..Len(cfg.rotor_positions) :
               b <= Len(cfg.blocks) /\ Len(cfg.rotor_positions[b]) # Len(cfg.blocks[b]))
            => Aborted(m)

\* C10: construction aborts when a plugboard character is not a character
\* of the chosen alphabet.
C10_OutsideCharAborts ==
    \A m \in Machines : (Constructed(m) /\ HasOutsideChar) => Aborted(m)

C10_Witness ==
    /\ Aborted("enc")
    /\ mach["enc"].error = "OutsideAlphabet"
    /\ cfg.plugboard # <<>>
    /\ ~(PairChars(Len(cfg.plugboard)) \subseteq AlphabetChars)

\* C11: construction aborts when a block string holds a character that is
\* not one of the ten colour tokens; an aborted construction leaves no
\* machine (no block list at all), and a machine that was built has one
\* block per block string with one rotor per token.
C11_UnknownTokenAborts ==
    \A m \in Machines :
        Constructed(m) =>
            /\ HasUnknownToken => Aborted(m)
            /\ Aborted(m) => DOMAIN mach[m] = {"status", "error"}
            /\ Built(m) =>
                  /\ Len(mach[m].blocks) = Len(cfg.blocks)
                  /\ \A b \in 1..Len(cfg.blocks) :
                        Len(mach[m].blocks[b].rotors) = Len(cfg.blocks[b])

C11_Witness ==
    /\ Aborted("enc")
    /\ mach["enc"].error = "UnknownColor"
    /\ \E b \in 1..Len(cfg.blocks) : \E i \in 1..Len(cfg.blocks[b]) :
          cfg.blocks[b][i] \notin ColorTokens /\ i > 1

\* C12: on a constructed machine no encrypt call panics: no table is indexed
\* outside its bounds in any rotor state the call passes through, the main
\* loop pushes one entry per character of the case-folded input and then
\* stops, and the call returns a string of one character per character of
\* the case-folded input.
C12_EncryptTotal ==
    \A m \in Machines :
        /\ call[m].pc # "panic"
        /\ call[m].pc = "loop" =>
              /\ Len(call[m].output_indices) <= Len(call[m].input_indices)
              /\ Len(call[m].output_indices) < Len(call[m].input_indices) =>
                    LET maybe_idx ==
                            call[m].input_indices[Len(call[m].output_indices) + 1]
                    IN  maybe_idx # None => ~TransformPanics(mach[m], maybe_idx)
        /\ Done(m) =>
              /\ Len(call[m].out) = Len(call[m].lower)
              /\ \A i \in 1..Len(call[m].out) : call[m].out[i] \in Nat

\* an encrypt call returned on a machine without blocks, after a mapped
\* character went from the reflector straight to the plugboard table, and
\* on a machine whose rotors were loaded with non-zero offsets
C12_Witness ==
    /\ Done("dec")
    /\ \E i \in 1..Len(call["dec"].input_indices) : call["dec"].input_indices[i] # None
    /\ \/ mach["dec"].blocks = <<>>
       \/ \E b \in 1..Len(cfg.rotor_positions) : \E i \in 1..Len(cfg.rotor_positions[b]) :
             cfg.rotor_positions[b][i] > 0

\* the case folding of t1 followed by t2 is the case folding of t1 followed
\* by the case folding of t2
FoldsApart ==
    ToLowercase(call["enc"].prior[1].msg \o call["enc"].msg)
        = ToLowercase(call["enc"].prior[1].msg) \o ToLowercase(call["enc"].msg)

\* C13 as stated: after enc encrypted t1 and then t2 and dec, fresh from the
\* same cfg, encrypted t1 followed by t2, enc's two outputs concatenated are
\* dec's output and both machines have the same rotor positions.
C13_Streaming ==
    (Streamed /\ Done("dec")) =>
        /\ call["enc"].prior[1].out \o call["enc"].out = call["dec"].out
        /\ SavePositions(mach["enc"]) = SavePositions(mach["dec"])

\* C13 as amended: both machines have the same rotor positions, and enc's
\* two outputs concatenated are dec's output when the case folding of t1
\* followed by t2 is the case folding of t1 followed by that of t2.
C13_StreamingFoldsApart ==
    (Streamed /\ Done("dec")) =>
        /\ FoldsApart => call["enc"].prior[1].out \o call["enc"].out = call["dec"].out
        /\ SavePositions(mach["enc"]) = SavePositions(mach["dec"])

\* both parts hold a letter of the alphabet and stepped the rotors, and the
\* streamed output is the output of the single call
C13_Witness ==
    /\ Streamed
    /\ Done("dec")
    /\ FoldsApart
    /\ call["enc"].prior[1].out \o call["enc"].out = call["dec"].out
    /\ call["enc"].prior[1].trace[1] # call["enc"].trace[1]
    /\ call["enc"].trace[1] # SavePositions(mach["enc"])

\* C14: no construction and no step of an encrypt call changes the
\* configuration record, and dec, built after enc's encrypt call returned,
\* starts at the rotor positions enc started at.
C14_ConfigUnchanged ==
    [][/\ cfg' = cfg
       /\ (mach["dec"].status = "none" /\ mach'["dec"].status = "ok") =>
             SavePositions(mach'["dec"]) = call["enc"].trace[1]]_vars

\* dec was built from a record with offsets after enc's rotors had moved
C14_Witness ==
    /\ Built("dec")
    /\ call["dec"].pc = "idle"
    /\ cfg.rotor_positions # <<>>
    /\ SavePositions(mach["enc"]) # SavePositions(mach["dec"])

\* a block's position vector read as an odometer: rotor 1 is the lowest digit
RECURSIVE OdometerValue(_, _)
OdometerValue(positions, sizes) ==
    IF positions = <<>> THEN 0
    ELSE Head(positions) + Head(sizes) * OdometerValue(Tail(positions), Tail(sizes))

\* the product of the rotor sizes of a block
RECURSIVE OdometerSpan(_)
OdometerSpan(sizes) == IF sizes = <<>> THEN 1 ELSE Head(sizes) * OdometerSpan(Tail(sizes))

\* the rotor sizes of block b of machine m
BlockSizes(m, b) ==
    [i \in 1..Len(mach[m].blocks[b].rotors) |-> mach[m].blocks[b].rotors[i].size]

\* C15: while dec encrypts enc's output, dec's rotor positions before every
\* character and after the last one are enc's at the same character, and a
\* mapped character advances every block of a machine by exactly one
\* odometer step.
C15_Lockstep ==
    /\ (Done("enc") /\ call["dec"].pc \in {"loop", "done"}) =>
          /\ call["dec"].msg = call["enc"].out
          /\ \A i \in 1..Len(call["dec"].trace) :
                call["dec"].trace[i] = call["enc"].trace[i]
    /\ \A m \in Machines :
          \A i \in 1..Len(call[m].output_indices) :
              call[m].input_indices[i] # None =>
                  \A b \in 1..Len(call[m].trace[i]) :
                      OdometerValue(call[m].trace[i + 1][b], BlockSizes(m, b))
                          = (OdometerValue(call[m].trace[i][b], BlockSizes(m, b)) + 1)
                                % OdometerSpan(BlockSizes(m, b))

\* dec returned after an unmapped character and a mapped one had taken both
\* machines' rotors through the same positions
C15_Witness ==
    /\ Done("dec")
    /\ mach["dec"].blocks # <<>>
    /\ call["dec"].trace = call["enc"].trace
    /\ \E i \in 1..Len(call["dec"].input_indices) : call["dec"].input_indices[i] = None
    /\ call["dec"].trace[Len(call["dec"].trace)] # call["dec"].trace[1]

\* rotor j of blk is one position further, modulo its size, after the step
Advanced(j) ==
    blk'.rotors[j].position = (blk.rotors[j].position + 1) % blk.rotors[j].size

\* rotor j of blk is where it was after the step
Stayed(j) == blk'.rotors[j].position = blk.rotors[j].position

\* C17: one Block::rotate call leaves every rotor where it was or one
\* position further, always advances the first rotor, and advances a later
\* rotor exactly when every rotor before it advanced to position 0 in that
\* call.
C17_StrictOdometer ==
    [][\A j \in 1..Len(blk.rotors) :
          /\ Advanced(j) \/ Stayed(j)
          /\ j = 1 => Advanced(j)
          /\ j > 1 =>
                (Advanced(j) <=>
                    \A i \in 1..(j - 1) : Advanced(i) /\ blk'.rotors[i].position = 0)]_vars

\* the carry has reached the third rotor of a block loaded with offsets, and
\* later calls stepped the first rotor alone
C17_Witness ==
    /\ ~StartsAtZero
    /\ Len(blk.rotors) = 3
    /\ stepped[3] = 1
    /\ stepped[1] > stepped[2]
    /\ stepped[2] > stepped[3]
    /\ blk.rotors[1].position # 0

\* the number of mapped characters among the first n of m's call
MappedBefore(m, n) == Cardinality({k \in 1..n : call[m].input_indices[k] # None})

\* C18: after an encrypt call has processed n characters of which k are
\* mapped, the first rotor of every block is k positions after its position
\* at the start of the call, modulo N, and every block is k odometer steps
\* after its own position vector at the start of the call.
C18_BlocksStepAlone ==
    \A m \in Machines :
        \A n \in 0..(Len(call[m].trace) - 1) :
            \A b \in 1..Len(call[m].trace[n + 1]) :
                LET first == call[m].trace[1][b]
                    now   == call[m].trace[n + 1][b]
                    k     == MappedBefore(m, n)
                IN  Len(now) > 0 =>
                        /\ now[1] = (first[1] + k) % mach[m].blocks[b].rotors[1].size
                        /\ OdometerValue(now, BlockSizes(m, b))
                              = (OdometerValue(first, BlockSizes(m, b)) + k)
                                    % OdometerSpan(BlockSizes(m, b))

\* a call returned after two mapped characters on a machine of two blocks:
\* the first block carried into its second rotor, the second block did not
C18_Witness ==
    \E m \in Machines :
        /\ Done(m)
        /\ Len(mach[m].blocks) = 2
        /\ MappedBefore(m, Len(call[m].input_indices)) = 2
        /\ mach[m].blocks[1].rotors[2].position # call[m].trace[1][1][2]
        /\ mach[m].blocks[2].rotors[2].position = call[m].trace[1][2][2]

\* the backward operators of the rotors of blk applied to idx one after the
\* other, the last declared rotor first
ReverseChain(idx) ==
    LET r == blk.rotors
    IN  CASE Len(r) = 1 -> Rotor_encode_index(r[1], idx, TRUE)
          [] Len(r) = 2 ->
                Rotor_encode_index(r[1], Rotor_encode_index(r[2], idx, TRUE), TRUE)
          [] Len(r) = 3 ->
                Rotor_encode_index(r[1],
                    Rotor_encode_index(r[2], Rotor_encode_index(r[3], idx, TRUE), TRUE),
                    TRUE)

\* C19: at every position vector a block reaches, process_index in reverse
\* mode undoes process_index in forward mode and the other way round, for
\* every index below N, and reverse mode is the rotors' backward operators
\* applied from the last declared rotor to the first.
C19_BlockInverse ==
    \A i \in 0..(blk.rotors[1].size - 1) :
        /\ Block_process_index(blk, Block_process_index(blk, i, FALSE), TRUE) = i
        /\ Block_process_index(blk, Block_process_index(blk, i, TRUE), FALSE) = i
        /\ Block_process_index(blk, i, TRUE) = ReverseChain(i)

\* a block of three rotors at a position vector without a 0 that rotate
\* calls led to, where forward mode moves index 0
C19_Witness ==
    /\ Len(blk.rotors) = 3
    /\ ncalls > blk.rotors[1].size
    /\ \A j \in 1..3 : blk.rotors[j].position # 0
    /\ Block_process_index(blk, 0, FALSE) # 0
    /\ Block_process_index(blk, Block_process_index(blk, 0, FALSE), TRUE) = 0

\* C20: for a rotor of any shift and size at any position below its size,
\* encode_index in reverse undoes encode_index forward and the other way
\* round on every index below the size, and both directions return an index
\* below the size.
C20_RotorInverse ==
    LET r == blk.rotors[1]
    IN  \A idx \in 0..(r.size - 1) :
            /\ Rotor_encode_index(r, Rotor_encode_index(r, idx, FALSE), TRUE) = idx
            /\ Rotor_encode_index(r, Rotor_encode_index(r, idx, TRUE), FALSE) = idx
            /\ Rotor_encode_index(r, idx, FALSE) \in 0..(r.size - 1)
            /\ Rotor_encode_index(r, idx, TRUE) \in 0..(r.size - 1)

\* a rotor whose shift is above its size, rotated to a position where shift
\* plus position wraps around the size and the forward direction moves
\* index 0
C20_Witness ==
    LET r == blk.rotors[1]
    IN  /\ Len(blk.rotors) = 1
        /\ r.shift > r.size
        /\ r.position > 0
        /\ ncalls = r.position
        /\ Rotor_encode_index(r, 0, FALSE) # 0
        /\ Rotor_encode_index(r, Rotor_encode_index(r, 0, FALSE), TRUE) = 0

\* every rotor of blk is at a position below its size
PositionsInRange ==
    \A j \in 1..Len(blk.rotors) :
        blk.rotors[j].position \in 0..(blk.rotors[j].size - 1)

\* C21: before and after every Block::rotate call on a block loaded with
\* the offsets of a configuration, also offsets of N and more, every rotor
\* is at a position below its size; a rotor stepped at size - 1 is at 0
\* afterwards, and Rotor::rotate returned true for exactly the rotors that
\* were stepped to position 0.
C21_PositionBound ==
    [][/\ PositionsInRange
       /\ PositionsInRange'
       /\ \A j \in 1..Len(blk.rotors) :
             /\ (stepped'[j] # stepped[j]
                     /\ blk.rotors[j].position = blk.rotors[j].size - 1)
                   => blk'.rotors[j].position = 0
             /\ wrapped'[j] # wrapped[j] <=>
                   (stepped'[j] # stepped[j] /\ blk'.rotors[j].position = 0)]_vars

\* a block loaded with an offset above N whose second rotor has wrapped
C21_Witness ==
    /\ Len(start) >= 2
    /\ start[2] > 0
    /\ wrapped[2] >= 1
    /\ blk.rotors[2].position = 0
    /\ blk.rotors[1].position = 0

\* C22: for an alphabet of any length N from 1 to MaxSize and any index i
\* below N, reflect_index(i) is N - 1 - i and reflect_index of that is i.
C22_ReflectorInvolution ==
    LET n   == TLen(mach["enc"].alphabet)
        i   == call["enc"].input_indices[1]
        out == call["enc"].output_indices
    IN  /\ call["enc"].pc # "panic"
        /\ Len(out) >= 1 => out[1] = n - 1 - i
        /\ Len(out) >= 2 => out[2] = i

\* the reflector of an alphabet of odd length above 1 was applied twice to
\* an index that is not the middle one
C22_Witness ==
    LET n   == TLen(mach["enc"].alphabet)
        i   == call["enc"].input_indices[1]
        out == call["enc"].output_indices
    IN  /\ n > 1
        /\ n % 2 = 1
        /\ Len(out) = 2
        /\ out[1] # i
        /\ out[2] = i

\* the characters get is asked about: every code point from two below to
\* two above the range of either alphabet
ProbeChars == (95..124) \cup (1070..1107)

\* C23: on every built machine, get returns i for the i-th character of the
\* built-in alphabet, in declaration order, and None for every other
\* character, below, above and inside the range of code points the
\* alphabet spans; the input_indices of every encrypt call are these
\* answers for the characters of the case-folded input.
C23_CodecMapping ==
    \A m \in Machines :
        LET alphabet == IF cfg.alphabet = "latin" THEN LatinAlphabet
                        ELSE CyrillicAlphabet
        IN  /\ (Built(m) /\ call[m].pc = "idle") =>
                  /\ \A i \in 1..Len(alphabet) :
                        /\ AlphabetIndex_get(mach[m].index_map, alphabet[i]) = i - 1
                        /\ mach[m].alphabet[i - 1] = alphabet[i]
                  /\ \A c \in ProbeChars \ Range(alphabet) :
                        AlphabetIndex_get(mach[m].index_map, c) = None
            /\ \A k \in 1..Len(call[m].input_indices) :
                  IF call[m].lower[k] \in Range(alphabet)
                  THEN alphabet[call[m].input_indices[k] + 1] = call[m].lower[k]
                  ELSE call[m].input_indices[k] = None

\* a Cyrillic machine was built: ё (U+0451) is declared seventh and is the
\* highest code point, and U+0450 is inside the range but not a character
\* of the alphabet
C23_Witness ==
    /\ Built("enc")
    /\ call["enc"].pc = "idle"
    /\ cfg.alphabet = "cyrillic"
    /\ AlphabetIndex_get(mach["enc"].index_map, 1105) = 6
    /\ AlphabetIndex_get(mach["enc"].index_map, 1104) = None
    /\ AlphabetIndex_get(mach["enc"].index_map, 1103) = 32

RECURSIVE SumSeq(_)
SumSeq(s) == IF s = <<>> THEN 0 ELSE Head(s) + SumSeq(Tail(s))

\* S: the sum of shift + position over all rotors of all blocks of machine
\* record m
RotorSum(m) ==
    SumSeq([b \in 1..Len(m.blocks) |->
              SumSeq([i \in 1..Len(m.blocks[b].rotors) |->
                        m.blocks[b].rotors[i].shift + m.blocks[b].rotors[i].position])])

\* PB[(N - 1 - PB[x] - 2 * S) mod N]
ClosedForm(m, x) ==
    LET n == TLen(m.alphabet)
    IN  m.plugboard_map[((n - 1 - m.plugboard_map[x]) + 2 * (n - (RotorSum(m) % n))) % n]

\* machine record m with its blocks in reverse order and the rotors of each
\* block in reverse order
Reordered(m) ==
    [m EXCEPT !.blocks =
        Reverse([b \in 1..Len(m.blocks) |->
                    [m.blocks[b] EXCEPT !.rotors = Reverse(m.blocks[b].rotors)]])]

\* C24: on a machine built from a plugboard list without a repeated
\* character, in every rotor state, the per-symbol transform of every index
\* x below N is PB[(N - 1 - PB[x] - 2 * S) mod N], and it is the same on the
\* machine with blocks and rotors reordered.
C24_ClosedForm ==
    (Built("enc") /\ ~HasRepeatedChar) =>
        \A x \in 0..(TLen(mach["enc"].alphabet) - 1) :
            /\ TransformIndex(mach["enc"], x) = ClosedForm(mach["enc"], x)
            /\ TransformIndex(Reordered(mach["enc"]), x) = TransformIndex(mach["enc"], x)

\* a machine of two blocks with a plugboard pair and loaded offsets, after
\* more mapped characters than the alphabet is long
C24_Witness ==
    /\ Built("enc")
    /\ ~HasRepeatedChar
    /\ cfg.plugboard # <<>>
    /\ Len(mach["enc"].blocks) = 2
    /\ cfg.rotor_positions # <<>>
    /\ ncalls > TLen(mach["enc"].alphabet)
    /\ TransformIndex(mach["enc"], 0) = ClosedForm(mach["enc"], 0)
    /\ Reordered(mach["enc"]) # mach["enc"]

\* the indices that the per-symbol transform of machine record m maps to
\* themselves
FixedPoints(m) == {x \in 0..(TLen(m.alphabet) - 1) : TransformIndex(m, x) = x}

\* C25: on a machine built from a plugboard list without a repeated
\* character, in every rotor state, no index is mapped to itself when the
\* alphabet length is even (Latin, 26) and exactly one is when it is odd
\* (Cyrillic, 33).
C25_FixedPoints ==
    (Built("enc") /\ ~HasRepeatedChar) =>
        /\ TLen(mach["enc"].alphabet) = (IF cfg.alphabet = "latin" THEN 26 ELSE 33)
        /\ Cardinality(FixedPoints(mach["enc"])) =
              (IF TLen(mach["enc"].alphabet) % 2 = 0 THEN 0 ELSE 1)

\* a Cyrillic machine with a plugboard pair whose one fixed point is a
\* character of the pair, after the rotors moved
C25_Witness ==
    /\ Built("enc")
    /\ ~HasRepeatedChar
    /\ cfg.alphabet = "cyrillic"
    /\ cfg.plugboard # <<>>
    /\ ncalls > 0
    /\ \E x \in 0..1 : FixedPoints(mach["enc"]) = {x}

\* the rotor sizes of blk
BlkSizes == [j \in 1..Len(blk.rotors) |-> blk.rotors[j].size]

\* C26: after n Block::rotate calls a block of k rotors is n odometer steps
\* after its starting vector, modulo N^k: the N^k vectors are visited one
\* after the other, and the block is at its starting vector exactly when n
\* is a multiple of N^k.
C26_BlockPeriod ==
    /\ OdometerSpan(BlkSizes) = blk.rotors[1].size ^ Len(blk.rotors)
    /\ OdometerValue(Block_save_positions(blk), BlkSizes)
          = (OdometerValue(start, BlkSizes) + ncalls) % OdometerSpan(BlkSizes)
    /\ Block_save_positions(blk) = start <=> ncalls % OdometerSpan(BlkSizes) = 0

\* a block of three rotors loaded with offsets is back at its starting
\* vector after N^3 calls
C26_Witness ==
    /\ Len(blk.rotors) = 3
    /\ ~StartsAtZero
    /\ ncalls = blk.rotors[1].size ^ 3
    /\ Block_save_positions(blk) = start

\* C27: the string an encrypt call returns has as many characters as the
\* case-folded input, and its character at a position is a character of
\* the alphabet exactly when the case-folded input's character at that
\* position is.
C27_ShapePreserved ==
    \A m \in Machines :
        Done(m) =>
            LET alphabet == Range(IF cfg.alphabet = "latin" THEN LatinAlphabet
                                  ELSE CyrillicAlphabet)
            IN  /\ Len(call[m].out) = Len(call[m].lower)
                /\ \A i \in 1..Len(call[m].lower) :
                      call[m].out[i] \in alphabet <=> call[m].lower[i] \in alphabet

\* a call returned for a text whose case folding is longer than the text
\* and holds characters of the alphabet and others
C27_Witness ==
    \E m \in Machines :
        /\ Done(m)
        /\ Len(call[m].lower) > Len(call[m].msg)
        /\ \E i, j \in 1..Len(call[m].out) :
              /\ call[m].input_indices[i] # None
              /\ call[m].out[i] # call[m].lower[i]
              /\ call[m].input_indices[j] = None
              /\ call[m].out[j] = call[m].lower[j]

\* C28: a built machine has the 26 Latin characters exactly when the tag is
\* "latin" and the 33 Cyrillic characters for every other tag; with a tag
\* that is neither "latin" nor "cyrillic" construction does not abort when
\* the rest of the record is accepted.
C28_AlphabetSelection ==
    \A m \in Machines :
        /\ Built(m) =>
              /\ cfg.alphabet = "latin" <=> mach[m].alphabet = Table(LatinAlphabet)
              /\ cfg.alphabet # "latin" <=> mach[m].alphabet = Table(CyrillicAlphabet)
              /\ TLen(mach[m].alphabet) = (IF cfg.alphabet = "latin" THEN 26 ELSE 33)
        /\ (/\ Constructed(m)
            /\ cfg.alphabet \notin {"latin", "cyrillic"}
            /\ ~HasUnknownToken
            /\ Len(cfg.rotor_positions) = Len(cfg.blocks)
            /\ \A k \in 1..Len(cfg.plugboard) :
                  {cfg.plugboard[k][1], cfg.plugboard[k][2]} \subseteq Range(CyrillicAlphabet))
              => Built(m)

\* a machine built for a tag main never writes, with a plugboard pair of
\* Cyrillic characters
C28_Witness ==
    /\ Built("enc")
    /\ cfg.alphabet = "greek"
    /\ cfg.plugboard # <<>>
    /\ mach["enc"].alphabet = Table(CyrillicAlphabet)

====
